---- MODULE Spec2Model ----
(***************************************************************************)
(* Model of widget.c (awesome window manager): the widget node collection  *)
(* of a wibox or titlebar, the layout resolver widget_geometries, the      *)
(* compositor widget_render, the two invalidation triggers and the         *)
(* generic widget property setter.                                         *)
(***************************************************************************)
EXTENDS Integers, Sequences, FiniteSets, TLC

(***************************************************************************)
(* The universe: two wiboxes in globalconf.wiboxes, two clients of which   *)
(* one owns a titlebar, three widgets.                                     *)
(***************************************************************************)
Wiboxes == {"b1", "b2"}

Clients == {"c1", "c2"}

NoSurface == "none"

\* c->titlebar: client c1 owns titlebar t1, client c2 has none (NULL).
titlebar(c) == IF c = "c1" THEN "t1" ELSE NoSurface

Titlebars == {titlebar(c) : c \in Clients} \ {NoSurface}

Surfaces == Wiboxes \cup Titlebars

Widgets == {"w1", "w2", "w3"}

NoWidget == "none"

\* widget->type, fixed at construction.
type(w) == IF w = "w2" THEN "graph" ELSE "textbox"

Types == {"textbox", "progressbar", "graph", "systray", "imagebox"}

Orientations == {"East", "North", "South"}

\* Number of distinct hook functions the configuration can bind.
MaxHooks == 2

Hooks == 1..MaxHooks

\* A widget field holding no Lua reference (NULL).
NoHook == 0

\* Largest coordinate a layout function puts in a geometry record.
MaxCoord == 2

\* ctx->bg.alpha of a fully opaque background (0xffff).
Opaque == 65535

area(x, y, width, height) == [x |-> x, y |-> y, width |-> width, height |-> height]

\* p_clear(&w, 1): a node's geometry before anything is written to it.
ZeroArea == area(0, 0, 0, 0)

MIN(a, b) == IF a < b THEN a ELSE b

(***************************************************************************)
(* Lua values of a declared widget table: a widget userdata, a nested      *)
(* table (grouping) or any other value.                                    *)
(***************************************************************************)
Wd(w) == [kind |-> "widget", widget |-> w, sub |-> <<>>]

Other == [kind |-> "other", widget |-> NoWidget, sub |-> <<>>]

Tb(items) == [kind |-> "table", widget |-> NoWidget, sub |-> items]

\* wibox->widgets_table == NULL
NoTable == [present |-> FALSE, layout |-> "nil", items |-> <<>>]

LuaTable(layout, items) == [present |-> TRUE, layout |-> layout, items |-> items]

ItemLists ==
    { <<Wd("w3")>>,
      <<Wd("w1"), Other, Tb(<<Wd("w2"), Tb(<<>>), Wd("w1")>>)>> }

\* The values of the "layout" field: absent, a Lua function, or another value.
Layouts == {"nil", "function"}

WidgetTables == {NoTable} \cup {LuaTable(l, i) : l \in Layouts, i \in ItemLists}

(***************************************************************************)
(* A geometry table: a Lua array of records whose fields x, y, width and   *)
(* height may be absent.  A field is <<>> when absent and <<n>> when set.  *)
(***************************************************************************)
Row(x, y, width, height) == [x |-> x, y |-> y, width |-> width, height |-> height]

Some(n) == <<n>>

Absent == <<>>

FullRow(a) == Row(Some(a.x), Some(a.y), Some(a.width), Some(a.height))

\* What a layout function may return for the widget tables above.
PolicyTables ==
    { <<Row(Some(1), Some(MaxCoord), Some(3), Some(4))>>,
      <<Row(Absent, Absent, Absent, Absent),
        Row(Some(MaxCoord), Some(0), Some(2), Some(1)),
        Row(Absent, Some(1), Absent, Some(MaxCoord))>> }

\* The outcome of luaA_dofunction on the layout function.
PolicyFailure == [ok |-> FALSE, geoms |-> <<>>]

PolicyResults == {PolicyFailure} \cup {[ok |-> TRUE, geoms |-> g] : g \in PolicyTables}

\* luaA_getopt_number(L, idx, name, def)
luaA_getopt_number(field, def) == IF field = Absent THEN def ELSE field[1]

\* widget->extents(L, widget): the natural size the widget type reports.
extents(w) ==
    CASE w = "w1" -> area(0, 0, 40, 30)
      [] w = "w2" -> area(3, 1, 120, 10)
      [] OTHER    -> area(0, 0, 0, 0)

VARIABLES
    isvisible,      \* widget->isvisible
    mouse_enter,    \* widget->mouse_enter
    mouse_leave,    \* widget->mouse_leave
    hookrefs,       \* references a widget holds on each hook function
    refs,           \* references held on each widget by node collections
    widgets_table,  \* wibox->widgets_table (the declared Lua table)
    widgets,        \* wibox->widgets (the node collection)
    need_update,    \* wibox->need_update
    geometry,       \* wibox->geometry
    orientation,    \* wibox->orientation
    ctx,            \* wibox->ctx: width, height, bg.alpha
    bg_image,       \* wibox->bg_image != NULL
    running,        \* FALSE once the process has crashed
    last,           \* the last operation and its inputs
    calls,          \* calls the last operation made to Lua and the back end
    pushed,         \* the geometry table the last widget_geometries pushed
    made            \* the widgets luaA_widget_new has returned, in order

vars == <<isvisible, mouse_enter, mouse_leave, hookrefs, refs, widgets_table,
          widgets, need_update, geometry, orientation, ctx, bg_image, running,
          last, calls, pushed, made>>

wibox_vars == <<geometry, orientation, ctx, bg_image>>

widget_vars == <<isvisible, mouse_enter, mouse_leave, hookrefs>>

(***************************************************************************)
(* History records.                                                        *)
(***************************************************************************)
Op(op, s, w, key, value) ==
    [op |-> op, surface |-> s, widget |-> w, key |-> key, value |-> value]

NoOp == Op("none", NoSurface, NoWidget, "", 0)

Call(call, w, a, angle, src) ==
    [call |-> call, widget |-> w, area |-> a, angle |-> angle, src |-> src]

(***************************************************************************)
(* Node collections.                                                       *)
(***************************************************************************)
Node(w, g) == [widget |-> w, geometry |-> g]

Contains(nodes, w) == \E i \in 1..Len(nodes) : nodes[i].widget = w

ContainsType(nodes, t) == \E i \in 1..Len(nodes) : type(nodes[i].widget) = t

\* Number of nodes of a collection that point at widget w.
RECURSIVE CountNodes(_, _)
CountNodes(nodes, w) ==
    IF nodes = <<>> THEN 0
    ELSE (IF nodes[1].widget = w THEN 1 ELSE 0) + CountNodes(Tail(nodes), w)

\* luaA_table2widgets: a table is recursed into, a widget becomes a node with
\* a cleared geometry, any other value is popped.
RECURSIVE luaA_table2widgets(_)
RECURSIVE table2widgets_next(_)
table2widgets_next(items) ==
    IF items = <<>> THEN <<>>
    ELSE luaA_table2widgets(items[1]) \o table2widgets_next(Tail(items))

luaA_table2widgets(v) ==
    IF v.kind = "table" THEN table2widgets_next(v.sub)
    ELSE IF v.kind = "widget" THEN <<Node(v.widget, ZeroArea)>>
    ELSE <<>>

\* A traversal that sees the entries of the declared table but not what its
\* nested tables hold.
widgets_table_value_shallow(wt) ==
    IF ~wt.present THEN Other
    ELSE Tb([i \in 1..Len(wt.items) |->
               IF wt.items[i].kind = "table" THEN Other ELSE wt.items[i]])

\* luaA_object_push_item(L, -1, wibox->widgets_table): the value the
\* flattening starts from.  The traversal of a declared table also visits its
\* "layout" field when that field is set.
widgets_table_value(wt) ==
    IF ~wt.present THEN Other
    ELSE IF wt.layout = "nil" THEN Tb(wt.items)
    ELSE Tb(wt.items \o <<Other>>)

\* A wipe that frees the array but releases no reference.
widget_node_array_wipe_leak(nodes, r) == r

\* widget_node_array_wipe: widget_node_delete releases one reference per node.
widget_node_array_wipe(nodes, r) ==
    [w \in Widgets |-> r[w] - CountNodes(nodes, w)]

\* luaA_object_ref in luaA_table2widgets: one reference per appended node.
luaA_object_ref(nodes, r) ==
    [w \in Widgets |-> r[w] + CountNodes(nodes, w)]

(***************************************************************************)
(* widget_geometries                                                       *)
(***************************************************************************)
\* lua_getfield(L, -1, "layout"), or nil when there is no widget table.
layout_field(s) ==
    IF widgets_table[s].present THEN widgets_table[s].layout ELSE "nil"

\* A logical geometry that is never exchanged.
layout_geometry_unswapped(s) == [geometry[s] EXCEPT !.x = 0, !.y = 0]

\* The first argument of the layout function: the wibox geometry with its
\* origin zeroed and, unless the wibox faces East, width and height exchanged.
layout_geometry(s) ==
    LET g == [geometry[s] EXCEPT !.x = 0, !.y = 0]
    IN  IF orientation[s] # "East"
        THEN [g EXCEPT !.height = g.width, !.width = g.height]
        ELSE g

\* A default geometry clamped to the logical (exchanged) wibox size.
default_geometry_logical(s, w) ==
    LET g == extents(w)
    IN  area(0, 0, MIN(layout_geometry(s).width, g.width),
                   MIN(layout_geometry(s).height, g.height))

\* The geometry pushed for one widget when no layout function is set.
default_geometry(s, w) ==
    LET g == extents(w)
    IN  area(0, 0, MIN(geometry[s].width, g.width),
                   MIN(geometry[s].height, g.height))

\* The default path from a collection `kept` holding references r: flatten the
\* widget table into it and push one geometry per node.
geometries_flatten(s, kept, r) ==
    LET added == luaA_table2widgets(widgets_table_value(widgets_table[s]))
        nodes == kept \o added
    IN  [ok      |-> TRUE,
         geoms   |-> [i \in 1..Len(nodes) |->
                        FullRow(default_geometry(s, nodes[i].widget))],
         widgets |-> nodes,
         refs    |-> luaA_object_ref(added, r),
         calls   |-> [i \in 1..Len(nodes) |->
                        Call("extents", nodes[i].widget, ZeroArea, 0, "")]]

\* A default path that forgets to wipe the collection first.
geometries_default_nowipe(s) == geometries_flatten(s, widgets[s], refs)

\* The default path: the collection is wiped and re-initialised first.
geometries_default(s) ==
    geometries_flatten(s, <<>>, widget_node_array_wipe(widgets[s], refs))

\* A layout-function path that wipes the collection before it calls the
\* function.
geometries_policy_wipes(s, res) ==
    [ok      |-> res.ok,
     geoms   |-> res.geoms,
     widgets |-> <<>>,
     refs    |-> widget_node_array_wipe(widgets[s], refs),
     calls   |-> <<Call("layout", NoWidget, layout_geometry(s), 0,
                        IF res.ok THEN "ok" ELSE "error")>>]

\* The layout-function path: the function is called with the logical geometry;
\* the node collection is not touched.  The call is recorded with its argument
\* and with what luaA_dofunction returned.
geometries_policy(s, res) ==
    [ok      |-> res.ok,
     geoms   |-> res.geoms,
     widgets |-> widgets[s],
     refs    |-> refs,
     calls   |-> <<Call("layout", NoWidget, layout_geometry(s), 0,
                        IF res.ok THEN "ok" ELSE "error")>>]

widget_geometries(s, res) ==
    IF layout_field(s) = "function"
    THEN geometries_policy(s, res)
    ELSE geometries_default(s)

(***************************************************************************)
(* widget_render                                                           *)
(***************************************************************************)
\* A compositor that looks up the root pixmap whatever the background alpha.
root_compositing_always(s, root) ==
    <<Call("xcb_get_property", NoWidget, ZeroArea, 0, "root")>>

\* Desktop-background compositing: only if the background is not opaque the
\* _XROOTPMAP_ID property is queried and, if it names a pixmap, that pixmap is
\* copied (East) or rotated (North, South) into the drawing context.
root_compositing(s, root) ==
    LET x == geometry[s].x
        y == geometry[s].y
        c == ctx[s]
    IN  IF c.alpha # Opaque
        THEN <<Call("xcb_get_property", NoWidget, ZeroArea, 0, "root")>> \o
             (IF ~root THEN <<>>
              ELSE CASE orientation[s] = "North" ->
                          <<Call("draw_rotate", NoWidget,
                                 area(y + c.width, 0 - x, c.width, c.height),
                                 90, "root")>>
                     [] orientation[s] = "South" ->
                          <<Call("draw_rotate", NoWidget,
                                 area(0 - y, x + c.height, c.width, c.height),
                                 0 - 90, "root")>>
                     [] OTHER ->
                          <<Call("xcb_copy_area", NoWidget,
                                 area(x, y, c.width, c.height), 0, "root")>>)
        ELSE <<>>

\* The geometry read back from one entry of the geometry table.
read_geometry(s, row) ==
    area(luaA_getopt_number(row.x, geometry[s].x),
         luaA_getopt_number(row.y, geometry[s].y),
         luaA_getopt_number(row.width, 1),
         luaA_getopt_number(row.height, 1))

\* The loop over the geometry table, as far as it stays inside the array.
read_geometries(s, nodes, geoms) ==
    [i \in 1..Len(nodes) |->
        IF i <= Len(geoms)
        THEN Node(nodes[i].widget, read_geometry(s, geoms[i]))
        ELSE nodes[i]]

\* widgets->tab[i] is written for every i < lua_objlen: past the end of the
\* array when the geometry table is longer than the node collection.
writes_past_end(nodes, geoms) == Len(geoms) > Len(nodes)

\* A compositor that fills the background colour before it draws the image.
draw_background_fill_first(s) ==
    <<Call("draw_rectangle", NoWidget,
           area(0, 0, ctx[s].width, ctx[s].height), 0, "bg")>> \o
    (IF bg_image[s] /\ ctx[s].alpha # Opaque
     THEN <<Call("draw_image", NoWidget, ZeroArea, 0, "bg_image")>>
     ELSE <<>>)

\* Background image (only under a non-opaque background), then the
\* background colour at opacity 1.0 over the whole context.
draw_background(s) ==
    (IF bg_image[s] /\ ctx[s].alpha # Opaque
     THEN <<Call("draw_image", NoWidget, ZeroArea, 0, "bg_image")>>
     ELSE <<>>) \o
    <<Call("draw_rectangle", NoWidget,
           area(0, 0, ctx[s].width, ctx[s].height), 0, "bg")>>

\* A compositor that draws every node.
node_drawn_always(node) == TRUE

\* if(widgets->tab[i].widget->isvisible)
node_drawn(node) == isvisible[node.widget]

\* The draw loop, in node order.
RECURSIVE draw_widgets(_)
draw_widgets(nodes) ==
    IF nodes = <<>> THEN <<>>
    ELSE (IF node_drawn(nodes[1])
          THEN <<Call("draw", nodes[1].widget, nodes[1].geometry, 0, "")>>
          ELSE <<>>) \o draw_widgets(Tail(nodes))

\* The final rotation of the context into the wibox pixmap.
final_rotation(s) ==
    LET c == ctx[s]
    IN  CASE orientation[s] = "South" ->
               <<Call("draw_rotate", NoWidget,
                      area(c.height, 0, c.height, c.width), 90, "ctx")>>
          [] orientation[s] = "North" ->
               <<Call("draw_rotate", NoWidget,
                      area(0, c.width, c.height, c.width), 0 - 90, "ctx")>>
          [] OTHER -> <<>>

\* A compositor that ignores the resolver's failure.
render_aborts_never(g) == FALSE

\* if (!widget_geometries(wibox)) return;
render_aborts(g) == ~g.ok

\* widget_render with the layout function's outcome res, the root pixmap
\* present or not, and ub the effect of a write past the end of the array:
\* undefined behaviour, which either stops the process ("crash", the render
\* ends there) or lands in memory nothing reads ("benign", the render goes
\* on).  A render that runs to its end has outcome "ok".
widget_render(s, res, root, ub) ==
    LET g == widget_geometries(s, res)
    IN  IF render_aborts(g)
        THEN [outcome |-> "failed", widgets |-> g.widgets, refs |-> g.refs,
              calls |-> g.calls]
        ELSE
        LET flat  == luaA_table2widgets(widgets_table_value(widgets_table[s]))
            r     == luaA_object_ref(flat, widget_node_array_wipe(g.widgets, g.refs))
            nodes == read_geometries(s, flat, g.geoms)
            c1    == g.calls \o root_compositing(s, root)
        IN  IF writes_past_end(flat, g.geoms) /\ ub = "crash"
            THEN [outcome |-> "crashed", widgets |-> nodes, refs |-> r,
                  calls |-> c1]
            ELSE [outcome |-> "ok", widgets |-> nodes, refs |-> r,
                  calls |-> c1 \o draw_background(s) \o draw_widgets(nodes)
                              \o final_rotation(s)]

(***************************************************************************)
(* Invalidation                                                            *)
(***************************************************************************)
\* A scan whose break leaves the loop after the first node.
has_type_first(nodes, t) == nodes # <<>> /\ type(nodes[1].widget) = t

\* foreach(wnode, wibox->widgets) if(wnode->widget->type == type) ... break;
RECURSIVE has_type(_, _)
has_type(nodes, t) ==
    IF nodes = <<>> THEN FALSE
    ELSE IF type(nodes[1].widget) = t THEN TRUE
    ELSE has_type(Tail(nodes), t)

\* foreach(wnode, wibox->widgets) if(wnode->widget == widget) ... break;
RECURSIVE has_widget(_, _)
has_widget(nodes, w) ==
    IF nodes = <<>> THEN FALSE
    ELSE IF nodes[1].widget = w THEN TRUE
    ELSE has_widget(Tail(nodes), w)

\* A scan by type that goes over the titlebars too.
widget_invalidate_bytype_titlebars(t) ==
    [s \in Surfaces |->
        IF has_type(widgets[s], t) THEN TRUE ELSE need_update[s]]

\* The need_update flags after widget_invalidate_bytype(type): only the
\* wiboxes of globalconf.wiboxes are scanned.
widget_invalidate_bytype(t) ==
    [s \in Surfaces |->
        IF s \in Wiboxes /\ has_type(widgets[s], t) THEN TRUE
        ELSE need_update[s]]

\* An invalidation by widget that forgets the clients' titlebars.
widget_invalidate_bywidget_wiboxes(w) ==
    [s \in Surfaces |->
        IF s \in Wiboxes /\ ~need_update[s] /\ has_widget(widgets[s], w)
        THEN TRUE
        ELSE need_update[s]]

\* The need_update flags after widget_invalidate_bywidget(widget): the wiboxes
\* of globalconf.wiboxes, then the titlebar of every client that has one.
widget_invalidate_bywidget(w) ==
    [s \in Surfaces |->
        IF /\ \/ s \in Wiboxes
              \/ \E c \in Clients : titlebar(c) # NoSurface /\ titlebar(c) = s
           /\ ~need_update[s]
           /\ has_widget(widgets[s], w)
        THEN TRUE
        ELSE need_update[s]]

(***************************************************************************)
(* luaA_widget_newindex                                                    *)
(***************************************************************************)
Keys == {"visible", "mouse_enter", "mouse_leave", "other"}

\* A setter that returns before the invalidation for every key.
newindex_invalidates_never(key, plugin) == FALSE

\* A setter whose hook cases break instead of returning.
newindex_invalidates_hooks(key, plugin) ==
    \/ key \in {"visible", "mouse_enter", "mouse_leave"}
    \/ key = "other" /\ plugin

\* Whether a write of key reaches widget_invalidate_bywidget: the visible case
\* breaks out of the switch, the hook cases return 0, any other key is left to
\* the widget type's newindex (plugin: whether that one invalidates).
newindex_invalidates(key, plugin) ==
    \/ key = "visible"
    \/ key = "other" /\ plugin

\* luaA_object_unref_item then luaA_object_ref_item on a hook field.
hook_swap(h, oldhook, newhook) ==
    LET released == [f \in Hooks |-> IF f = oldhook THEN h[f] - 1 ELSE h[f]]
    IN  [f \in Hooks |-> IF f = newhook THEN released[f] + 1 ELSE released[f]]

(***************************************************************************)
(* Initial state: widgets as luaA_widget_new leaves them (visible, no       *)
(* hooks), surfaces without a widget table and with an empty node           *)
(* collection.  The first wibox takes every orientation and background      *)
(* alpha, with and without a background image; the drawing context has the  *)
(* dimensions of the unrotated wibox.                                       *)
(***************************************************************************)
\* The configurations of the first wibox: every orientation with every alpha,
\* a background image present and absent under both alphas.
WiboxConfigs ==
    { [o |-> "East",  a |-> Opaque,        img |-> TRUE],
      [o |-> "East",  a |-> Opaque \div 2, img |-> FALSE],
      [o |-> "North", a |-> Opaque,        img |-> FALSE],
      [o |-> "North", a |-> Opaque \div 2, img |-> TRUE],
      [o |-> "South", a |-> Opaque,        img |-> TRUE],
      [o |-> "South", a |-> Opaque \div 2, img |-> TRUE] }

ctx_of(g, o, a) ==
    IF o = "East"
    THEN [width |-> g.width, height |-> g.height, alpha |-> a]
    ELSE [width |-> g.height, height |-> g.width, alpha |-> a]

Init ==
    /\ isvisible = [w \in Widgets |-> TRUE]
    /\ mouse_enter = [w \in Widgets |-> NoHook]
    /\ mouse_leave = [w \in Widgets |-> NoHook]
    /\ hookrefs = [w \in Widgets |-> [f \in Hooks |-> 0]]
    /\ refs = [w \in Widgets |-> 0]
    /\ widgets_table = [s \in Surfaces |-> NoTable]
    /\ widgets = [s \in Surfaces |-> <<>>]
    /\ need_update = [s \in Surfaces |-> FALSE]
    /\ geometry = [s \in Surfaces |->
                     CASE s = "b1" -> area(5, 7, 100, 20)
                       [] s = "b2" -> area(0, 0, 30, 200)
                       [] OTHER    -> area(2, 3, 60, 12)]
    /\ \E c \in WiboxConfigs :
          /\ orientation = [s \in Surfaces |->
                              CASE s = "b1" -> c.o
                                [] s = "b2" -> "South"
                                [] OTHER    -> "North"]
          /\ ctx = [s \in Surfaces |->
                      CASE s = "b1" -> ctx_of(geometry[s], c.o, c.a)
                        [] s = "b2" -> ctx_of(geometry[s], "South", Opaque \div 2)
                        [] OTHER    -> ctx_of(geometry[s], "North", Opaque)]
          /\ bg_image = [s \in Surfaces |-> IF s = "b1" THEN c.img ELSE s = "b2"]
    /\ running = TRUE
    /\ last = NoOp
    /\ calls = <<>>
    /\ pushed = <<>>
    /\ made = <<>>

\* What every operation records.
Record(op) == last' = op

(***************************************************************************)
(* Operations                                                              *)
(***************************************************************************)
\* The configuration replaces or mutates the declared widget table of s.
SetWidgetsTable(s, t) ==
    /\ running
    /\ t # widgets_table[s]
    /\ widgets_table' = [widgets_table EXCEPT ![s] = t]
    /\ Record(Op("widgets_table", s, NoWidget, "", 0))
    /\ calls' = <<>>
    /\ UNCHANGED <<widget_vars, wibox_vars, refs, widgets, need_update,
                   running, pushed, made>>

\* widget_geometries(wibox) called on its own.  The record tells (value 1)
\* when the operation before it was widget_geometries on the same wibox.
ResolveGeometries(s, res) ==
    /\ running
    /\ LET g == widget_geometries(s, res)
       IN  /\ widgets' = [widgets EXCEPT ![s] = g.widgets]
           /\ refs' = g.refs
           /\ calls' = g.calls
           /\ pushed' = g.geoms
           /\ Record(Op("widget_geometries", s, NoWidget,
                        IF g.ok THEN "ok" ELSE "failed",
                        IF last.op = "widget_geometries" /\ last.surface = s
                        THEN 1 ELSE 0))
    /\ UNCHANGED <<widget_vars, wibox_vars, widgets_table, need_update, running,
                   made>>

\* widget_render(wibox).
Render(s, res, root, ub) ==
    /\ running
    /\ LET r == widget_render(s, res, root, ub)
       IN  /\ widgets' = [widgets EXCEPT ![s] = r.widgets]
           /\ refs' = r.refs
           /\ calls' = r.calls
           /\ pushed' = widget_geometries(s, res).geoms
           /\ running' = (r.outcome # "crashed")
           /\ Record(Op("widget_render", s, NoWidget, r.outcome, 0))
    /\ UNCHANGED <<widget_vars, wibox_vars, widgets_table, need_update, made>>

\* widget_invalidate_bytype(type).
InvalidateByType(t) ==
    /\ running
    /\ need_update' = widget_invalidate_bytype(t)
    /\ Record(Op("widget_invalidate_bytype", NoSurface, NoWidget, t, 0))
    /\ calls' = <<>>
    /\ UNCHANGED <<widget_vars, wibox_vars, refs, widgets_table, widgets,
                   running, pushed, made>>

\* widget_invalidate_bywidget(widget).
InvalidateByWidget(w) ==
    /\ running
    /\ need_update' = widget_invalidate_bywidget(w)
    /\ Record(Op("widget_invalidate_bywidget", NoSurface, w, "", 0))
    /\ calls' = <<>>
    /\ UNCHANGED <<widget_vars, wibox_vars, refs, widgets_table, widgets,
                   running, pushed, made>>

\* luaA_widget_newindex(widget, key, value): value is a boolean (1 or 0) for
\* visible and a function for the two hooks.
NewIndex(w, key, value, plugin) ==
    /\ running
    /\ key \in Keys
    /\ key \in {"mouse_enter", "mouse_leave"} => value \in Hooks
    /\ key \notin {"mouse_enter", "mouse_leave"} => value \in {0, 1}
    /\ isvisible' = IF key = "visible"
                    THEN [isvisible EXCEPT ![w] = (value = 1)]
                    ELSE isvisible
    /\ mouse_enter' = IF key = "mouse_enter"
                      THEN [mouse_enter EXCEPT ![w] = value]
                      ELSE mouse_enter
    /\ mouse_leave' = IF key = "mouse_leave"
                      THEN [mouse_leave EXCEPT ![w] = value]
                      ELSE mouse_leave
    /\ hookrefs' =
          CASE key = "mouse_enter" ->
                 [hookrefs EXCEPT ![w] = hook_swap(@, mouse_enter[w], value)]
            [] key = "mouse_leave" ->
                 [hookrefs EXCEPT ![w] = hook_swap(@, mouse_leave[w], value)]
            [] OTHER -> hookrefs
    /\ need_update' = IF newindex_invalidates(key, plugin)
                      THEN widget_invalidate_bywidget(w)
                      ELSE need_update
    /\ Record(Op("luaA_widget_newindex", NoSurface, w, key, value))
    /\ calls' = <<>>
    /\ UNCHANGED <<wibox_vars, refs, widgets_table, widgets, running, pushed,
                   made>>

(***************************************************************************)
(* luaA_widget_new                                                         *)
(***************************************************************************)
\* Largest number of widgets the configuration creates.
MaxMade == 2

\* The values of the "type" field: the five widget types, a string that is no
\* token, a token that names no widget type, and no value at all.
TypeNames == Types \cup {"bogus", "visible", "nil"}

\* a_tokenize: the token of a string, A_TK_UNKNOWN for a string that is none
\* and for a missing one.
a_tokenize(name) ==
    IF name \in Types \cup (Keys \ {"other"}) THEN name ELSE "unknown"

\* No constructor (wc == NULL).
NoConstructor == "NULL"

\* A switch whose systray case falls through to the imagebox case.
widget_constructor_fallthrough(token) ==
    CASE token = "textbox"     -> "textbox"
      [] token = "progressbar" -> "progressbar"
      [] token = "graph"       -> "graph"
      [] token = "systray"     -> "imagebox"
      [] token = "imagebox"    -> "imagebox"
      [] OTHER                 -> NoConstructor

\* switch(a_tokenize(type, len)): the constructor of a token.
widget_constructor(token) ==
    CASE token = "textbox"     -> "textbox"
      [] token = "progressbar" -> "progressbar"
      [] token = "graph"       -> "graph"
      [] token = "systray"     -> "systray"
      [] token = "imagebox"    -> "imagebox"
      [] OTHER                 -> NoConstructor

\* luaA_widget_new with the value of the "type" field: with a constructor it
\* returns a new widget of that type, visible; without one it warns and
\* returns nothing.
WidgetNew(name) ==
    /\ running
    /\ Len(made) < MaxMade
    /\ LET wc == widget_constructor(a_tokenize(name))
       IN  IF wc # NoConstructor
           THEN /\ made' = Append(made, [type |-> wc, isvisible |-> TRUE])
                /\ calls' = <<>>
                /\ Record(Op("luaA_widget_new", NoSurface, NoWidget, name, 1))
           ELSE /\ made' = made
                /\ calls' = <<Call("luaA_warn", NoWidget, ZeroArea, 0, name)>>
                /\ Record(Op("luaA_widget_new", NoSurface, NoWidget, name, 0))
    /\ UNCHANGED <<widget_vars, wibox_vars, refs, widgets_table, widgets,
                   need_update, running, pushed>>

(***************************************************************************)
(* widget_getbycoords                                                      *)
(***************************************************************************)
\* The value an int16_t holds after an int is stored in it.
int16(n) == ((n + 32768) % 65536) - 32768

\* A lookup that takes the coordinates as they come, whatever the
\* orientation.
coords_transform_unrotated(o, width, height, x, y) == [x |-> x, y |-> y]

\* switch(orientation): the coordinates left in *x and *y.
coords_transform(o, width, height, x, y) ==
    CASE o = "South" -> [x |-> int16(y), y |-> int16(width - x)]
      [] o = "North" -> [x |-> int16(height - y), y |-> int16(x)]
      [] OTHER       -> [x |-> x, y |-> y]

\* The condition of the foreach loop on one node.
node_hit(node, x, y) ==
    /\ isvisible[node.widget]
    /\ x >= node.geometry.x
    /\ x < node.geometry.x + node.geometry.width
    /\ y >= node.geometry.y
    /\ y < node.geometry.y + node.geometry.height

\* foreach(w, *widgets) if(...) return w->widget; return NULL;
RECURSIVE first_hit(_, _, _)
first_hit(nodes, x, y) ==
    IF nodes = <<>> THEN NoWidget
    ELSE IF node_hit(nodes[1], x, y) THEN nodes[1].widget
    ELSE first_hit(Tail(nodes), x, y)

\* widget_getbycoords(orientation, widgets, width, height, x, y): the widget
\* returned and the coordinates left in *x and *y.
widget_getbycoords(o, nodes, width, height, x, y) ==
    LET p == coords_transform(o, width, height, x, y)
    IN  [widget |-> first_hit(nodes, p.x, p.y), x |-> p.x, y |-> p.y]

\* The pointer positions looked up, relative to the wibox: for each
\* orientation, positions inside and on the edges of the geometries the
\* layout paths give.
Points ==
    { <<1, 2>>, <<4, 2>>, <<3, 5>>, <<3, 6>>, <<50, 5>>, <<10, 5>>, <<5, 7>>,
      <<5, 2>>, <<2, 0>>,
      <<98, 1>>, <<98, 4>>, <<95, 3>>, <<94, 3>>, <<95, 50>>, <<95, 10>>,
      <<93, 5>>, <<98, 5>>, <<100, 2>>,
      <<2, 19>>, <<2, 16>>, <<5, 17>>, <<6, 17>>, <<5, 0 - 30>>, <<7, 15>>,
      <<2, 15>>, <<0, 18>> }

\* A lookup of the widget under a pointer position on wibox s, as the event
\* handlers make it: with the wibox's orientation, nodes, width and height.
\* The calls recorded are the position passed in and the position left in *x
\* and *y with the widget returned.
GetByCoords(s, x, y) ==
    /\ running
    /\ LET r == widget_getbycoords(orientation[s], widgets[s],
                                   geometry[s].width, geometry[s].height, x, y)
       IN  /\ calls' = <<Call("in", NoWidget, area(x, y, 0, 0), 0, ""),
                         Call("out", r.widget, area(r.x, r.y, 0, 0), 0, "")>>
           /\ Record(Op("widget_getbycoords", s, r.widget, "", 0))
    /\ UNCHANGED <<widget_vars, wibox_vars, refs, widgets_table, widgets,
                   need_update, running, pushed, made>>

(***************************************************************************)
(* Specification of the render pipeline: every operation on the first      *)
(* wibox, with every widget table and every outcome of the layout function.*)
(***************************************************************************)
Rendered == {"b1"}

\* The widgets whose visibility the configuration toggles.
Toggled == {"w1", "w3"}

\* The outcomes of the layout function that matter to s: none is called
\* when the layout field is no function.
Outcomes(s) ==
    IF layout_field(s) = "function" THEN PolicyResults ELSE {PolicyFailure}

Next ==
    \/ \E s \in Rendered, t \in WidgetTables : SetWidgetsTable(s, t)
    \/ \E s \in Rendered : \E res \in Outcomes(s) : ResolveGeometries(s, res)
    \/ \E s \in Rendered, root \in BOOLEAN, ub \in {"crash", "benign"} :
          \E res \in Outcomes(s) : Render(s, res, root, ub)
    \/ \E w \in Toggled, v \in {0, 1} : NewIndex(w, "visible", v, FALSE)

Spec == Init /\ [][Next]_vars

(***************************************************************************)
(* Specification of the invalidation tracker: the three surfaces start     *)
(* with any of the default-path widget tables already flattened into their *)
(* node collections (as widget_geometries leaves them) and any need_update *)
(* flags; the operations are the two invalidations and the property        *)
(* setter.                                                                 *)
(***************************************************************************)
DefaultTables == {NoTable} \cup {LuaTable("nil", i) : i \in ItemLists}

\* The widget the configuration writes properties of.
Written == {"w1"}

InitInval ==
    /\ isvisible = [w \in Widgets |-> TRUE]
    /\ mouse_enter = [w \in Widgets |-> NoHook]
    /\ mouse_leave = [w \in Widgets |-> NoHook]
    /\ hookrefs = [w \in Widgets |-> [f \in Hooks |-> 0]]
    /\ widgets_table \in [Surfaces -> DefaultTables]
    /\ widgets = [s \in Surfaces |->
                    luaA_table2widgets(widgets_table_value(widgets_table[s]))]
    /\ refs = [w \in Widgets |->
                 CountNodes(widgets["b1"], w) + CountNodes(widgets["b2"], w)
                 + CountNodes(widgets["t1"], w)]
    /\ need_update \in [Surfaces -> BOOLEAN]
    /\ geometry = [s \in Surfaces |->
                     CASE s = "b1" -> area(5, 7, 100, 20)
                       [] s = "b2" -> area(0, 0, 30, 200)
                       [] OTHER    -> area(2, 3, 60, 12)]
    /\ orientation = [s \in Surfaces |->
                        CASE s = "b1" -> "East"
                          [] s = "b2" -> "South"
                          [] OTHER    -> "North"]
    /\ ctx = [s \in Surfaces |->
                CASE s = "b1" -> ctx_of(geometry[s], "East", Opaque)
                  [] s = "b2" -> ctx_of(geometry[s], "South", Opaque \div 2)
                  [] OTHER    -> ctx_of(geometry[s], "North", Opaque)]
    /\ bg_image = [s \in Surfaces |-> s # "t1"]
    /\ running = TRUE
    /\ last = NoOp
    /\ calls = <<>>
    /\ pushed = <<>>
    /\ made = <<>>

NextInval ==
    \/ \E t \in Types : InvalidateByType(t)
    \/ \E w \in Widgets : InvalidateByWidget(w)
    \/ \E w \in Written, v \in {0, 1} : NewIndex(w, "visible", v, FALSE)
    \/ \E w \in Written, k \in {"mouse_enter", "mouse_leave"}, f \in Hooks :
          NewIndex(w, k, f, FALSE)
    \/ \E w \in Written, plugin \in BOOLEAN : NewIndex(w, "other", 0, plugin)

SpecInval == InitInval /\ [][NextInval]_vars

(***************************************************************************)
(* Properties                                                              *)
(***************************************************************************)
\* C1: after widget_invalidate_bywidget(W) every surface, wibox or titlebar,
\* whose node collection contains W has need_update true, and every surface
\* whose node collection does not contain W keeps the flag it had.
C1_InvalidateByWidget ==
    [][last'.op = "widget_invalidate_bywidget" =>
         \A s \in Surfaces :
            IF Contains(widgets[s], last'.widget)
            THEN need_update'[s]
            ELSE need_update'[s] = need_update[s]]_vars

\* An invalidation by widget has run with a wibox and a titlebar that contain
\* the widget, and a clean surface that does not contain it.
C1_Witness ==
    /\ last.op = "widget_invalidate_bywidget"
    /\ \E s \in Wiboxes : Contains(widgets[s], last.widget) /\ need_update[s]
    /\ \E s \in Titlebars : Contains(widgets[s], last.widget) /\ need_update[s]
    /\ \E s \in Surfaces : ~Contains(widgets[s], last.widget) /\ ~need_update[s]

\* C2: after widget_invalidate_bytype(T) every wibox of the global list whose
\* node collection contains a widget of type T has need_update true, and every
\* wibox that contains none keeps the flag it had.
C2_InvalidateByType ==
    [][last'.op = "widget_invalidate_bytype" =>
         \A s \in Wiboxes :
            IF ContainsType(widgets[s], last'.key)
            THEN need_update'[s]
            ELSE need_update'[s] = need_update[s]]_vars

\* An invalidation by type has run with a wibox that contains a widget of the
\* type and a clean wibox that contains none.
C2_Witness ==
    /\ last.op = "widget_invalidate_bytype"
    /\ \E s \in Wiboxes : ContainsType(widgets[s], last.key) /\ need_update[s]
    /\ \E s \in Wiboxes :
          /\ widgets[s] # <<>>
          /\ ~ContainsType(widgets[s], last.key)
          /\ ~need_update[s]

\* C5: a write of the key visible on W stores the value and then invalidates
\* by widget, so that afterwards every wibox and titlebar whose node
\* collection contains W has need_update true.
C5_VisibleWrite ==
    (last.op = "luaA_widget_newindex" /\ last.key = "visible") =>
        /\ isvisible[last.widget] = (last.value = 1)
        /\ \A s \in Surfaces :
              Contains(widgets[s], last.widget) => need_update[s]

\* The widget has been hidden while a wibox and a titlebar hold it.
C5_Witness ==
    /\ last.op = "luaA_widget_newindex"
    /\ last.key = "visible"
    /\ ~isvisible[last.widget]
    /\ \E s \in Wiboxes : Contains(widgets[s], last.widget) /\ need_update[s]
    /\ \E s \in Titlebars : Contains(widgets[s], last.widget) /\ need_update[s]

\* C6: a write of mouse_enter or mouse_leave releases the reference to the old
\* hook, takes one on the new hook, stores the new hook and changes no
\* need_update flag.
C6_HookWrite ==
    [][(last'.op = "luaA_widget_newindex"
        /\ last'.key \in {"mouse_enter", "mouse_leave"}) =>
         LET w    == last'.widget
             new  == last'.value
             prev == IF last'.key = "mouse_enter"
                     THEN mouse_enter[w] ELSE mouse_leave[w]
         IN  /\ need_update' = need_update
             /\ (IF last'.key = "mouse_enter"
                  THEN mouse_enter'[w] ELSE mouse_leave'[w]) = new
             /\ \A h \in Hooks :
                   hookrefs'[w][h] = hookrefs[w][h]
                                     - (IF h = prev THEN 1 ELSE 0)
                                     + (IF h = new THEN 1 ELSE 0)]_vars

\* A hook of a widget has been rebound while a clean wibox and a clean
\* titlebar hold the widget.
C6_Witness ==
    /\ last.op = "luaA_widget_newindex"
    /\ last.key \in {"mouse_enter", "mouse_leave"}
    /\ mouse_enter[last.widget] # NoHook
    /\ mouse_leave[last.widget] # NoHook
    /\ mouse_enter[last.widget] # mouse_leave[last.widget]
    /\ \E s \in Wiboxes : Contains(widgets[s], last.widget) /\ ~need_update[s]
    /\ \E s \in Titlebars : Contains(widgets[s], last.widget) /\ ~need_update[s]

\* The calls of the last operation that are made to callee c.
CallsTo(c) == SelectSeq(calls, LAMBDA x : x.call = c)

\* The back-end calls that paint.
PaintCalls ==
    {"xcb_copy_area", "draw_rotate", "draw_image", "draw_rectangle", "draw"}

\* The layout function was called by the last operation and failed.
LayoutFailed(cs) ==
    \E i \in 1..Len(cs) : cs[i].call = "layout" /\ cs[i].src = "error"

\* C3: a render whose layout function fails paints nothing (no root copy, no
\* background image, no colour fill, no widget draw, no final rotation) and
\* leaves every need_update flag as it was.
C3_FailedRenderPaintsNothing ==
    [][(last'.op = "widget_render" /\ LayoutFailed(calls')) =>
         /\ \A i \in 1..Len(calls') : calls'[i].call \notin PaintCalls
         /\ need_update' = need_update]_vars

\* A render of a dirty wibox with nodes has been aborted by its layout
\* function.
C3_Witness ==
    /\ last.op = "widget_render"
    /\ LayoutFailed(calls)
    /\ need_update[last.surface]
    /\ widgets[last.surface] # <<>>

\* C4: a render that runs to its end calls draw once for each node of the
\* rebuilt collection whose widget is visible, in node order, and never for a
\* node whose widget is not visible.
C4_DrawsVisibleNodes ==
    (last.op = "widget_render" /\ last.key = "ok") =>
        LET draws   == CallsTo("draw")
            visible == SelectSeq(widgets[last.surface],
                                 LAMBDA n : isvisible[n.widget])
        IN  /\ Len(draws) = Len(visible)
            /\ \A i \in 1..Len(draws) : draws[i].widget = visible[i].widget
            /\ \A i \in 1..Len(draws) : isvisible[draws[i].widget]

\* A rotated wibox has been rendered with a hidden widget on two nodes and a
\* visible widget on one.
C4_Witness ==
    /\ last.op = "widget_render"
    /\ last.key = "ok"
    /\ orientation[last.surface] # "East"
    /\ Len(widgets[last.surface]) = 3
    /\ ~isvisible["w1"]
    /\ Len(CallsTo("draw")) = 1

\* C7: without a layout function the geometry pushed for node i is x = 0,
\* y = 0, width = min(wibox width, extents width), height = min(wibox height,
\* extents height), with the wibox's own width and height in every
\* orientation.
C7_DefaultGeometry ==
    (/\ last.op \in {"widget_geometries", "widget_render"}
     /\ layout_field(last.surface) # "function") =>
        LET s == last.surface
        IN  /\ Len(pushed) = Len(widgets[s])
            /\ \A i \in 1..Len(pushed) :
                  LET e == extents(widgets[s][i].widget)
                      W == geometry[s].width
                      H == geometry[s].height
                  IN  pushed[i] =
                        [x |-> <<0>>, y |-> <<0>>,
                         width  |-> <<IF e.width < W THEN e.width ELSE W>>,
                         height |-> <<IF e.height < H THEN e.height ELSE H>>]

\* The 100x20 wibox facing South has resolved a widget of extents (40, 30) to
\* {0, 0, 40, 20} and a widget of extents (120, 10) to {0, 0, 100, 10}.
C7_Witness ==
    /\ last.op = "widget_geometries"
    /\ last.surface = "b1"
    /\ orientation["b1"] = "South"
    /\ layout_field("b1") # "function"
    /\ Len(pushed) = 3
    /\ pushed[1] = [x |-> <<0>>, y |-> <<0>>, width |-> <<40>>, height |-> <<20>>]
    /\ pushed[2] = [x |-> <<0>>, y |-> <<0>>, width |-> <<100>>, height |-> <<10>>]

\* C8: a layout function is called with {0, 0, width, height} of the wibox
\* when it faces East and with {0, 0, height, width} when it faces North or
\* South, and the wibox's stored geometry is not modified.
C8_LogicalGeometry ==
    [][(/\ last'.op \in {"widget_geometries", "widget_render"}
        /\ layout_field(last'.surface) = "function") =>
         LET s == last'.surface
             g == geometry[s]
         IN  /\ calls' # <<>>
             /\ calls'[1].call = "layout"
             /\ calls'[1].area =
                   IF orientation[s] = "East"
                   THEN [x |-> 0, y |-> 0, width |-> g.width, height |-> g.height]
                   ELSE [x |-> 0, y |-> 0, width |-> g.height, height |-> g.width]
             /\ geometry' = geometry]_vars

\* The layout function of the 100x20 wibox facing North has been called with
\* {0, 0, 20, 100}.
C8_Witness ==
    /\ last.op \in {"widget_geometries", "widget_render"}
    /\ orientation[last.surface] = "North"
    /\ calls # <<>>
    /\ calls[1].call = "layout"
    /\ calls[1].area = [x |-> 0, y |-> 0, width |-> 20, height |-> 100]
    /\ geometry[last.surface] = [x |-> 5, y |-> 7, width |-> 100, height |-> 20]

\* C9: widget_geometries called twice in a row on a wibox, nothing changing in
\* between, leaves the node collection after the second call as it was after
\* the first: same length, same widgets, same geometries.
C9_ResolveIdempotent ==
    [][(/\ last.op = "widget_geometries"
        /\ last'.op = "widget_geometries"
        /\ last'.surface = last.surface) =>
         widgets'[last.surface] = widgets[last.surface]]_vars

\* widget_geometries has run twice in a row on a wibox whose default path
\* flattened three nodes.
C9_Witness ==
    /\ last.op = "widget_geometries"
    /\ last.value = 1
    /\ layout_field(last.surface) # "function"
    /\ Len(widgets[last.surface]) = 3

\* The calls of the last operation that read or copy the root pixmap.
RootCalls == SelectSeq(calls, LAMBDA x : x.src = "root")

\* C10 as stated: a render under an opaque background (alpha 0xffff) makes no
\* call for the root pixmap, and every render under any other alpha queries
\* the root pixmap exactly once.
C10_AsStated ==
    (last.op = "widget_render") =>
        IF ctx[last.surface].alpha = Opaque
        THEN RootCalls = <<>>
        ELSE Len(CallsTo("xcb_get_property")) = 1

\* C10, amended: a render under an opaque background makes no call for the
\* root pixmap in any orientation; under any other alpha the root pixmap is
\* queried exactly once when the geometry resolution succeeds, and not at all
\* when the layout function fails.
C10_RootCompositing ==
    (last.op = "widget_render") =>
        /\ ctx[last.surface].alpha = Opaque => RootCalls = <<>>
        /\ (ctx[last.surface].alpha # Opaque /\ ~LayoutFailed(calls)) =>
              Len(CallsTo("xcb_get_property")) = 1
        /\ LayoutFailed(calls) => RootCalls = <<>>

\* A wibox facing South with a translucent background has been rendered: one
\* query, then the rotated copy of the root pixmap.
C10_Witness ==
    /\ last.op = "widget_render"
    /\ last.key = "ok"
    /\ orientation[last.surface] = "South"
    /\ ctx[last.surface].alpha # Opaque
    /\ Len(RootCalls) = 2
    /\ RootCalls[1].call = "xcb_get_property"
    /\ RootCalls[2].call = "draw_rotate"

(***************************************************************************)
(* Specification of the widget factory: luaA_widget_new with every value   *)
(* of the type field, beside widget tables being declared and resolved on  *)
(* the first wibox and widgets being hidden and shown.                     *)
(***************************************************************************)
InitNew == Init /\ orientation["b1"] = "East" /\ bg_image["b1"]

NextNew ==
    \/ \E name \in TypeNames : WidgetNew(name)
    \/ \E s \in Rendered, t \in DefaultTables : SetWidgetsTable(s, t)
    \/ \E s \in Rendered : ResolveGeometries(s, PolicyFailure)
    \/ \E w \in Toggled, v \in {0, 1} : NewIndex(w, "visible", v, FALSE)

SpecNew == InitNew /\ [][NextNew]_vars

\* C11: luaA_widget_new returns a widget exactly when the type name is one of
\* textbox, progressbar, graph, systray, imagebox; the widget returned is
\* visible and has the type of that name; for any other name, a missing one
\* included, nothing is returned, one warning is emitted, and no widget or
\* surface that exists changes.
C11_WidgetNew ==
    [][last'.op = "luaA_widget_new" =>
         /\ IF last'.key \in {"textbox", "progressbar", "graph", "systray",
                               "imagebox"}
            THEN /\ last'.value = 1
                 /\ made' = made \o <<[type |-> last'.key, isvisible |-> TRUE]>>
                 /\ calls' = <<>>
            ELSE /\ last'.value = 0
                 /\ made' = made
                 /\ Len(calls') = 1
                 /\ calls'[1].call = "luaA_warn"
         /\ UNCHANGED <<isvisible, mouse_enter, mouse_leave, hookrefs, refs,
                        widgets_table, widgets, need_update, geometry,
                        orientation, ctx, bg_image>>]_vars

\* A systray widget has been created, then a type name that is no widget
\* type has been refused with a warning, beside a dirty wibox with nodes and a
\* hidden widget.
C11_Witness ==
    /\ last.op = "luaA_widget_new"
    /\ last.key \notin Types
    /\ last.value = 0
    /\ Len(calls) = 1
    /\ made = <<[type |-> "systray", isvisible |-> TRUE]>>
    /\ widgets["b1"] # <<>>
    /\ need_update["b1"]
    /\ ~isvisible["w1"]

\* The flattening of the widget table surface s declares now.
Declared(s) == luaA_table2widgets(widgets_table_value(widgets_table[s]))

\* C12: whenever the visible flag of a widget that is a member of a surface's
\* declared widget table is written, after any widget-table changes,
\* widget_geometries calls and renders, that surface's need_update flag is true
\* afterwards.
C12_DeclaredMemberInvalidates ==
    [][(last'.op = "luaA_widget_newindex" /\ last'.key = "visible") =>
         \A s \in Surfaces :
            Contains(Declared(s), last'.widget) => need_update'[s]]_vars

\* The widgets a list of table entries names, in traversal order: a widget
\* names itself, a nested table what its entries name, any other value nothing.
RECURSIVE WidgetsOf(_)
WidgetsOf(items) ==
    IF items = <<>> THEN <<>>
    ELSE (CASE items[1].kind = "widget" -> <<items[1].widget>>
            [] items[1].kind = "table"  -> WidgetsOf(items[1].sub)
            [] OTHER                    -> <<>>) \o WidgetsOf(Tail(items))

\* The widgets the nodes of a collection point at, in order.
NodeWidgets(nodes) == [i \in 1..Len(nodes) |-> nodes[i].widget]

\* C13: after every successful render, and after every widget_geometries on
\* the default path, the node collection of the surface is exactly the
\* flattening of the widget table it declares now: nested tables recursed
\* into, other values dropped, widgets in traversal order and once per
\* listing, and no node of an earlier pass left.
C13_NodesAreFlattening ==
    ((last.op = "widget_render" /\ last.key = "ok")
       \/ (last.op = "widget_geometries"
             /\ layout_field(last.surface) # "function")) =>
    NodeWidgets(widgets[last.surface]) =
        (IF widgets_table[last.surface].present
         THEN WidgetsOf(widgets_table[last.surface].items)
         ELSE <<>>)

\* A successful render of a table that lists w1 twice, once inside a nested
\* table beside w2 and an empty table, and holds a value that is no widget.
C13_Witness ==
    /\ last.op = "widget_render"
    /\ last.key = "ok"
    /\ widgets_table["b1"].present
    /\ Len(widgets_table["b1"].items) = 3
    /\ NodeWidgets(widgets["b1"]) = <<"w1", "w2", "w1">>

\* The value of an optional field of a geometry-table entry, def when absent.
FieldOr(field, def) == IF Len(field) = 0 THEN def ELSE field[1]

\* C14: in a successful render, for every index i of the resolved geometry
\* table, node i of the rebuilt collection gets the geometry read from entry
\* i, an absent x being the surface's x, an absent y the surface's y, an absent
\* width 1 and an absent height 1; each visible widget is drawn with exactly
\* the geometry of its node.
C14_ReadbackGeometry ==
    (last.op = "widget_render" /\ last.key = "ok") =>
        LET s       == last.surface
            nodes   == widgets[s]
            draws   == CallsTo("draw")
            visible == SelectSeq(nodes, LAMBDA n : isvisible[n.widget])
        IN  /\ \A i \in 1..Len(pushed) :
                  /\ i \in 1..Len(nodes)
                  /\ nodes[i].geometry =
                        area(FieldOr(pushed[i].x, geometry[s].x),
                             FieldOr(pushed[i].y, geometry[s].y),
                             FieldOr(pushed[i].width, 1),
                             FieldOr(pushed[i].height, 1))
            /\ Len(draws) = Len(visible)
            /\ \A j \in 1..Len(draws) : draws[j].area = visible[j].geometry

\* The place of a call in a render: geometry resolution, desktop-background
\* copy, background image, background colour, widget draws, final rotation.
Phase(c) ==
    CASE c.call \in {"layout", "extents"}                       -> 1
      [] c.call = "xcb_get_property"                            -> 2
      [] c.call \in {"xcb_copy_area", "draw_rotate"}
           /\ c.src = "root"                                    -> 2
      [] c.call = "draw_image"                                  -> 3
      [] c.call = "draw_rectangle"                              -> 4
      [] c.call = "draw"                                        -> 5
      [] c.call = "draw_rotate" /\ c.src = "ctx"                -> 6
      [] OTHER                                                  -> 0

\* The calls of the last operation in one phase.
InPhase(p) == SelectSeq(calls, LAMBDA c : Phase(c) = p)

\* C15: within one successful render the calls come in a fixed order:
\* geometry resolution, then the desktop-background copy if any, then the
\* background image (only if there is one and alpha is not 0xFFFF), then the
\* background-colour fill, then the widget draws in node order, then the final
\* rotation; the final rotation is made exactly for North (-90 degrees) and
\* South (+90 degrees), with the destination width and height exchanged, and
\* never for East.
C15_RenderOrder ==
    (last.op = "widget_render" /\ last.key = "ok") =>
        LET s       == last.surface
            visible == SelectSeq(widgets[s], LAMBDA n : isvisible[n.widget])
            rot     == InPhase(6)
        IN  /\ \A i \in 1..Len(calls) : Phase(calls[i]) \in 1..6
            /\ \A i, j \in 1..Len(calls) :
                  i < j => Phase(calls[i]) <= Phase(calls[j])
            /\ Len(InPhase(1)) >= 1 \/ widgets[s] = <<>>
            /\ Len(InPhase(3)) =
                  (IF bg_image[s] /\ ctx[s].alpha # 65535 THEN 1 ELSE 0)
            /\ Len(InPhase(4)) = 1
            /\ NodeWidgets(InPhase(5)) = NodeWidgets(visible)
            /\ Len(rot) = (IF orientation[s] \in {"North", "South"} THEN 1 ELSE 0)
            /\ \A i \in 1..Len(rot) :
                  /\ rot[i].angle = (IF orientation[s] = "North" THEN 0 - 90 ELSE 90)
                  /\ rot[i].area.width = ctx[s].height
                  /\ rot[i].area.height = ctx[s].width

\* A successful render of a North wibox with a translucent background and a
\* background image: root pixmap copied, image drawn, three widgets drawn,
\* context rotated.
C15_Witness ==
    /\ last.op = "widget_render"
    /\ last.key = "ok"
    /\ orientation[last.surface] = "North"
    /\ Len(InPhase(2)) = 2
    /\ Len(InPhase(3)) = 1
    /\ Len(InPhase(5)) = 3
    /\ Len(InPhase(6)) = 1

\* The nodes of all collections that point at widget w.
NodesPointingAt(w) ==
    { p \in UNION {{<<s, i>> : i \in 1..Len(widgets[s])} : s \in Surfaces} :
        widgets[p[1]][p[2]].widget = w }

\* C16: in every reachable state, after any widget-table changes,
\* widget_geometries calls and renders, successful or failed, the references
\* node collections hold on a widget are as many as the nodes that point at
\* it: none is leaked, none is released twice.
C16_ReferenceBalance ==
    \A w \in Widgets : refs[w] = Cardinality(NodesPointingAt(w))

\* widget_geometries has just wiped and rebuilt a collection it had built the
\* step before, from a table that lists w1 twice.
C16_Witness ==
    /\ last.op = "widget_geometries"
    /\ last.value = 1
    /\ layout_field(last.surface) # "function"
    /\ refs["w1"] = 2
    /\ refs["w3"] = 0

\* C17: when the layout function fails, widget_geometries, and so
\* widget_render, leaves the node collection as it was before the call: the
\* same nodes with the same geometries and the same references held.
C17_FailureKeepsNodes ==
    [][(last'.op \in {"widget_geometries", "widget_render"}
          /\ LayoutFailed(calls')) =>
         /\ widgets' = widgets
         /\ refs' = refs]_vars

\* widget_geometries has failed on a wibox whose nodes, with geometries read
\* back by an earlier render, are not the ones its table declares now.
C17_Witness ==
    /\ last.op = "widget_geometries"
    /\ LayoutFailed(calls)
    /\ widgets[last.surface] # <<>>
    /\ widgets[last.surface][1].geometry # ZeroArea
    /\ NodeWidgets(widgets[last.surface]) #
          WidgetsOf(widgets_table[last.surface].items)

\* C18: in a render, every node index whose geometry is written while the
\* resolved geometry table is read back is smaller than the length of the
\* rebuilt node collection, whatever table the layout function returned; no
\* write lands outside the collection.
C18_ReadbackInBounds ==
    (last.op = "widget_render" /\ last.key # "failed") =>
        \A i \in 1..Len(pushed) : i \in 1..Len(widgets[last.surface])

(***************************************************************************)
(* Specification of the pointer lookup: the first wibox, opaque, in every  *)
(* orientation, is given widget tables and rendered, widgets are hidden    *)
(* and shown, and pointer positions are looked up.                         *)
(***************************************************************************)
InitCoords == Init /\ ctx["b1"].alpha = Opaque

NextCoords ==
    \/ \E s \in Rendered, t \in WidgetTables : SetWidgetsTable(s, t)
    \/ \E s \in Rendered, ub \in {"crash", "benign"} :
          \E res \in Outcomes(s) : Render(s, res, FALSE, ub)
    \/ \E w \in Toggled, v \in {0, 1} : NewIndex(w, "visible", v, FALSE)
    \/ \E s \in Rendered, p \in Points : GetByCoords(s, p[1], p[2])

SpecCoords == InitCoords /\ [][NextCoords]_vars

\* The point a pointer position stands for on a wibox of the given
\* orientation, width and height.
Transformed(o, width, height, x, y) ==
    CASE o = "South" -> <<y, width - x>>
      [] o = "North" -> <<height - y, x>>
      [] OTHER       -> <<x, y>>

\* C19: widget_getbycoords returns no widget, or the widget of the first
\* node, in order, that is visible and whose geometry contains the
\* transformed point (South: (x, y) -> (y, width - x); North: (x, y) ->
\* (height - y, x); East: unchanged), the geometry taken half-open; it never
\* returns an invisible widget and does not modify the node collection.
C19_GetByCoords ==
    [][last'.op = "widget_getbycoords" =>
         LET s     == last'.surface
             nodes == widgets[s]
             p     == Transformed(orientation[s], geometry[s].width,
                                  geometry[s].height,
                                  calls'[1].area.x, calls'[1].area.y)
             hits  == { i \in 1..Len(nodes) :
                          /\ isvisible[nodes[i].widget]
                          /\ nodes[i].geometry.x <= p[1]
                          /\ p[1] < nodes[i].geometry.x + nodes[i].geometry.width
                          /\ nodes[i].geometry.y <= p[2]
                          /\ p[2] < nodes[i].geometry.y + nodes[i].geometry.height }
         IN  /\ IF hits = {} THEN last'.widget = NoWidget
                ELSE \E i \in hits :
                        /\ \A j \in hits : i <= j
                        /\ last'.widget = nodes[i].widget
             /\ last'.widget # NoWidget => isvisible[last'.widget]
             /\ widgets' = widgets
             /\ isvisible' = isvisible]_vars

\* On a South wibox with the hidden widget w1 on the first node, a position
\* that both the first and the second node contain after the transform has
\* been looked up and the widget of the second node returned.
C19_Witness ==
    /\ last.op = "widget_getbycoords"
    /\ orientation[last.surface] = "South"
    /\ last.widget = "w2"
    /\ ~isvisible["w1"]
    /\ Len(widgets[last.surface]) = 3
    /\ widgets[last.surface][1].widget = "w1"
    /\ widgets[last.surface][1].geometry = area(0, 0, 40, 20)
    /\ calls[1].area = area(95, 10, 0, 0)
    /\ calls[2].area = area(10, 5, 0, 0)

\* C20: widget_invalidate_bytype never changes the need_update flag of a
\* client titlebar, not even of one that holds a widget of the type: it scans
\* the wiboxes only, unlike widget_invalidate_bywidget.
C20_ByTypeSkipsTitlebars ==
    [][last'.op = "widget_invalidate_bytype" =>
         \A s \in Titlebars : need_update'[s] = need_update[s]]_vars

\* An invalidation by type has left clean a titlebar that holds a widget of
\* the type, while it marked a wibox.
C20_Witness ==
    /\ last.op = "widget_invalidate_bytype"
    /\ \E s \in Titlebars :
          /\ \E i \in 1..Len(widgets[s]) : type(widgets[s][i].widget) = last.key
          /\ ~need_update[s]
    /\ \E b \in Wiboxes :
          /\ \E i \in 1..Len(widgets[b]) : type(widgets[b][i].widget) = last.key
          /\ need_update[b]

====
